---- MODULE Spec2Model ----
(***************************************************************************)
(* Model of the usage aggregation engine of claude-usage-monitor-cli:      *)
(* ClaudeDataReader (lib/utils/claude-data.js), the parts of               *)
(* ClaudeUsageMonitor (lib/monitor.js) that sit on top of it, PlanConfig   *)
(* (lib/plans.js) and the monitor display of ClaudeMonitorCLI (lib/cli.js).*)
(*                                                                         *)
(* The file system is the environment: a fixed set of conversation files,  *)
(* each with a status, a modification time and a content (a sequence of    *)
(* lines).  The reader owns the cache.  Time is a counter of clock ticks.  *)
(***************************************************************************)
EXTENDS Integers, Sequences, FiniteSets, TLC

VARIABLES
    files,      \* the conversation files on disk: path -> [status, mtime, content]
    cache,      \* ClaudeDataReader.cache: <<path, mtime>> -> [data, timestamp]
    now,        \* Date.now()
    ret,        \* what the last operation returned (tagged with the operation)
    prevRead,   \* history: the file as the last readJSONLFile(path) call found it
    firstParse, \* history: the read-and-parse that is still current for a path
    lastAll,    \* history: the result of the last getAllUsageData call
    dirty,      \* history: a file changed since the last getAllUsageData call
    mods,       \* history: number of changes made to the file system
    baseDir,    \* the base directory of the reader: "ok" or "missing"
    proc        \* the command-line process: where run is, its timers and handlers

vars == <<files, cache, now, ret, prevRead, firstParse, lastAll, dirty, mods, baseDir,
          proc>>

----------------------------------------------------------------------------
(* Bounds of the model *)

MaxTime == 2        \* the clock stops ticking here
MaxMTime == 2       \* modification times are 1..MaxMTime
MaxMods == 2        \* changes to the file system in the cache specification
MaxLines == 2       \* lines appended over all files in the fold specification
MaxBatches == 48    \* request counts handed to the display: up to 125 times this
MaxRefreshes == 2   \* times the refresh timer fires in the monitor specification

(* Program constant, in clock ticks (the default is 5 minutes) *)
cacheTimeout == 2

----------------------------------------------------------------------------
(* JavaScript values *)

Absent == 0 - 1         \* a key the JSON object does not carry (undefined)
Garbage == 0 - 3        \* a timestamp string that Date cannot parse
InvalidDate == 0 - 1    \* a Date whose time value is NaN
Null == 0 - 2           \* null

\* a || b on numbers: undefined and 0 are falsy
JsOr(a, b) == IF a # Absent /\ a # 0 THEN a ELSE b

\* new Date(v): undefined and unparseable strings give an Invalid Date
NewDate(v) == IF v = Absent \/ v = Garbage THEN InvalidDate ELSE v

\* a < b on Dates: every comparison with an Invalid Date (NaN) is false
DateLt(a, b) == a # InvalidDate /\ b # InvalidDate /\ a < b

----------------------------------------------------------------------------
(* The log format: one line of a .jsonl file *)

\* obj.key, undefined when the object does not carry the key
Has(obj, key) == key \in DOMAIN obj
Get(obj, key) == IF key \in DOMAIN obj THEN obj[key] ELSE Absent

\* A line is text that JSON.parse rejects ("malformed"), or the literal null,
\* or a number or string ("scalar"), or an object with its value.

\* an assistant message with input/output tokens, no total
Msg(inp, out, model, ts) ==
    [json |-> "object",
     value |-> [type |-> "message", sender |-> "assistant",
                usage |-> [input_tokens |-> inp, output_tokens |-> out],
                model |-> model, timestamp |-> ts]]

LineA1 == Msg(10, 20, "opus", 1)
LineA2 == Msg(5, 5, "sonnet", 3)
LineA3 == Msg(0, 0, "opus", 2)
\* the total is supplied, with cache tokens, under response.usage
LineTotal ==
    [json |-> "object",
     value |-> [type |-> "message", sender |-> "assistant",
                response |-> [usage |-> [total_tokens |-> 9, inputTokens |-> 3,
                                         completion_tokens |-> 4,
                                         cache_creation_input_tokens |-> 1,
                                         cache_read_input_tokens |-> 1],
                              model |-> "opus"],
                created_at |-> 0]]
\* no timestamp at all
LineUndated ==
    [json |-> "object",
     value |-> [type |-> "message", sender |-> "assistant",
                usage |-> [input_tokens |-> 1, output_tokens |-> 1],
                model |-> "sonnet"]]
\* a timestamp that does not parse
LineGarbage ==
    [json |-> "object",
     value |-> [type |-> "message", sender |-> "assistant",
                usage |-> [prompt_tokens |-> 2], created_at |-> Garbage]]
\* an assistant message without usage, a human message with usage
LineNoUsage ==
    [json |-> "object",
     value |-> [type |-> "message", sender |-> "assistant", timestamp |-> 2]]
LineHuman ==
    [json |-> "object",
     value |-> [type |-> "message", sender |-> "human",
                usage |-> [input_tokens |-> 7, output_tokens |-> 7],
                model |-> "opus", timestamp |-> 2]]
LineMalformed == [json |-> "malformed"]
LineNull == [json |-> "null"]
\* a number or a string: valid JSON whose properties are all undefined
LineScalar == [json |-> "scalar"]

\* messages that carry usage objects at any of the four locations, each with
\* its own input_tokens; response and metadata may be there without usage
Field(key, options) == {<<>>} \cup {key :> o : o \in options}

UsageMessages ==
    {[json |-> "object",
      value |-> [type |-> "message", sender |-> sender] @@ u @@ r @@ md @@ st] :
        sender \in {"assistant", "human"},
        u \in Field("usage", {[input_tokens |-> 1]}),
        r \in Field("response", {[model |-> "opus"], [usage |-> [input_tokens |-> 2]]}),
        md \in Field("metadata", {[source |-> "cli"], [usage |-> [input_tokens |-> 3]]}),
        st \in Field("stats", {[input_tokens |-> 4]})}

Lines == {LineA1, LineA2, LineA3, LineTotal, LineUndated, LineGarbage,
          LineNoUsage, LineHuman, LineMalformed, LineNull, LineScalar}

----------------------------------------------------------------------------
(* The log directory: baseDir/{projectId}/{file}.jsonl *)

ProjectOrder == <<"p1", "p2">>                          \* sorted
PathOrder == <<"p1/a.jsonl", "p1/b.jsonl", "p2/c.jsonl">>   \* sorted
Projects == {ProjectOrder[i] : i \in DOMAIN ProjectOrder}
Paths == {PathOrder[i] : i \in DOMAIN PathOrder}
DirOf == ("p1/a.jsonl" :> "p1") @@ ("p1/b.jsonl" :> "p1") @@ ("p2/c.jsonl" :> "p2")

----------------------------------------------------------------------------
(* ClaudeDataReader *)

\* fs.statSync(filePath).mtime.getTime(), 0 when stat throws
GetFileModTime(fs, filePath) ==
    IF fs[filePath].status = "missing" THEN 0 ELSE fs[filePath].mtime

\* a reader that gives up on a file at the first line that does not parse
ParseLinesUntilError(content) ==
    IF \E i \in DOMAIN content : content[i].json = "malformed"
    THEN SubSeq(content, 1,
                (CHOOSE i \in DOMAIN content :
                    /\ content[i].json = "malformed"
                    /\ \A j \in 1..(i - 1) : content[j].json # "malformed") - 1)
    ELSE content

\* lines.forEach(JSON.parse): a line that does not parse is skipped
ParseLines(content) == SelectSeq(content, LAMBDA line : line.json # "malformed")

CacheKey(fs, filePath) == <<filePath, GetFileModTime(fs, filePath)>>

\* a reader that compares the age of the entry with the wrong limit
CacheFreshTooShort(cached, t) == t - cached.timestamp < cacheTimeout - 1

\* Date.now() - cached.timestamp < this.cacheTimeout
CacheFresh(cached, t) == t - cached.timestamp < cacheTimeout

\* console.warn('Skipping invalid JSON line ...'): once per line in the catch
SkippedLines(content) == Len(content) - Len(ParseLines(content))

\* readJSONLFile(filePath): the entries returned, the cache afterwards,
\* whether the file was read and parsed, and what was logged
ReadJSONLFile(fs, c, t, filePath) ==
    LET cacheKey == CacheKey(fs, filePath)
    IN  IF cacheKey \in DOMAIN c /\ CacheFresh(c[cacheKey], t)
        THEN [entries |-> c[cacheKey].data, cache |-> c, parsed |-> FALSE,
              warnings |-> 0, errors |-> 0]
        ELSE IF fs[filePath].status # "ok"
        THEN \* readFileSync throws: one console.error, nothing is cached
             [entries |-> <<>>, cache |-> c, parsed |-> FALSE,
              warnings |-> 0, errors |-> 1]
        ELSE LET entries == ParseLines(fs[filePath].content)
             IN  [entries |-> entries,
                  cache |-> (cacheKey :> [data |-> entries, timestamp |-> t]) @@ c,
                  parsed |-> TRUE,
                  warnings |-> SkippedLines(fs[filePath].content), errors |-> 0]

\* getConversationFiles(projectId): the .jsonl files of the directory, sorted
GetConversationFiles(fs, projectId) ==
    SelectSeq(PathOrder, LAMBDA path : DirOf[path] = projectId
                                       /\ fs[path].status # "missing")

\* Array.prototype.sort with (a, b) => b.modifiedTime - a.modifiedTime: stable
RECURSIVE InsertByModifiedTime(_, _)
InsertByModifiedTime(sorted, conv) ==
    IF sorted = <<>> THEN <<conv>>
    ELSE IF Head(sorted).modifiedTime >= conv.modifiedTime
         THEN <<Head(sorted)>> \o InsertByModifiedTime(Tail(sorted), conv)
         ELSE <<conv>> \o sorted

RECURSIVE SortByModifiedTime(_)
SortByModifiedTime(convs) ==
    IF convs = <<>> THEN <<>>
    ELSE InsertByModifiedTime(SortByModifiedTime(SubSeq(convs, 1, Len(convs) - 1)),
                              convs[Len(convs)])

\* a reader that lets the failure of one file end the loop over the files
RECURSIVE ReadConversationsAborting(_, _, _, _, _)
ReadConversationsAborting(fs, c, t, fileList, conversations) ==
    IF fileList = <<>> THEN [conversations |-> conversations, cache |-> c]
    ELSE LET file == Head(fileList)
             r == ReadJSONLFile(fs, c, t, file)
         IN  IF r.errors > 0 THEN [conversations |-> conversations, cache |-> r.cache]
             ELSE ReadConversationsAborting(fs, r.cache, t, Tail(fileList),
                      IF Len(r.entries) > 0
                      THEN Append(conversations,
                                  [file |-> file, entries |-> r.entries,
                                   modifiedTime |-> GetFileModTime(fs, file)])
                      ELSE conversations)

\* the loop of getConversationData over the files of a project
RECURSIVE ReadConversations(_, _, _, _, _)
ReadConversations(fs, c, t, fileList, conversations) ==
    IF fileList = <<>> THEN [conversations |-> conversations, cache |-> c]
    ELSE LET file == Head(fileList)
             r == ReadJSONLFile(fs, c, t, file)
         IN  ReadConversations(fs, r.cache, t, Tail(fileList),
                 IF Len(r.entries) > 0
                 THEN Append(conversations,
                             [file |-> file, entries |-> r.entries,
                              modifiedTime |-> GetFileModTime(fs, file)])
                 ELSE conversations)

\* getConversationData(projectId)
GetConversationData(fs, c, t, projectId) ==
    LET r == ReadConversations(fs, c, t, GetConversationFiles(fs, projectId), <<>>)
    IN  [conversations |-> SortByModifiedTime(r.conversations), cache |-> r.cache]

\* a reader that prefers message.stats to the other locations
FindUsageStatsFirst(message) ==
    IF Has(message, "stats") THEN message.stats
    ELSE IF Has(message, "usage") THEN message.usage
    ELSE IF Has(message, "response") /\ Has(message.response, "usage")
    THEN message.response.usage
    ELSE IF Has(message, "metadata") /\ Has(message.metadata, "usage")
    THEN message.metadata.usage
    ELSE <<>>

\* message.usage || message.response?.usage || message.metadata?.usage ||
\* message.stats: the first of them that is there; <<>> stands for undefined
FindUsage(message) ==
    IF Has(message, "usage") THEN message.usage
    ELSE IF Has(message, "response") /\ Has(message.response, "usage")
    THEN message.response.usage
    ELSE IF Has(message, "metadata") /\ Has(message.metadata, "usage")
    THEN message.metadata.usage
    ELSE IF Has(message, "stats") THEN message.stats
    ELSE <<>>

\* message.model || message.response?.model || null
FindModel(message) ==
    IF Has(message, "model") /\ message.model # "" THEN message.model
    ELSE IF Has(message, "response") /\ Has(message.response, "model")
    THEN message.response.model
    ELSE ""

\* new Date(message.created_at || message.timestamp)
EntryDate(message) ==
    NewDate(IF Has(message, "created_at") THEN message.created_at
            ELSE Get(message, "timestamp"))

\* extractMessageUsage(message); present = FALSE stands for the null returned
ExtractMessageUsage(message) ==
    LET usage == FindUsage(message)
    IN  [present |-> usage # <<>>,
         totalTokens |-> JsOr(Get(usage, "total_tokens"),
                              JsOr(Get(usage, "totalTokens"), 0)),
         inputTokens |-> JsOr(Get(usage, "input_tokens"),
                              JsOr(Get(usage, "inputTokens"),
                                   JsOr(Get(usage, "prompt_tokens"), 0))),
         outputTokens |-> JsOr(Get(usage, "output_tokens"),
                               JsOr(Get(usage, "outputTokens"),
                                    JsOr(Get(usage, "completion_tokens"), 0))),
         cacheCreationTokens |-> JsOr(Get(usage, "cache_creation_input_tokens"),
                                      JsOr(Get(usage, "cacheCreationTokens"), 0)),
         cacheReadTokens |-> JsOr(Get(usage, "cache_read_input_tokens"),
                                  JsOr(Get(usage, "cacheReadTokens"), 0)),
         model |-> FindModel(message),
         timestamp |-> EntryDate(message)]

\* Set.add followed by Array.from: insertion order, no duplicates
AddModel(models, model) ==
    IF \E i \in DOMAIN models : models[i] = model THEN models
    ELSE Append(models, model)

\* the time-range update of extractUsageData
UpdateTimeRange(timeRange, timestamp) ==
    [start |-> IF timeRange.start = Null \/ DateLt(timestamp, timeRange.start)
               THEN timestamp ELSE timeRange.start,
     end |-> IF timeRange.end = Null \/ DateLt(timeRange.end, timestamp)
             THEN timestamp ELSE timeRange.end]

EmptyUsageData ==
    [totalTokens |-> 0, inputTokens |-> 0, outputTokens |-> 0,
     cacheCreationTokens |-> 0, cacheReadTokens |-> 0, requestCount |-> 0,
     models |-> <<>>, timeRange |-> [start |-> Null, end |-> Null],
     threw |-> FALSE]

\* the body of the loop of extractUsageData for an entry that carries usage
FoldEntry(usageData, entry, usage) ==
    [usageData EXCEPT
        !.totalTokens = @ + JsOr(usage.totalTokens, 0),
        !.inputTokens = @ + JsOr(usage.inputTokens, 0),
        !.outputTokens = @ + JsOr(usage.outputTokens, 0),
        !.cacheCreationTokens = @ + JsOr(usage.cacheCreationTokens, 0),
        !.cacheReadTokens = @ + JsOr(usage.cacheReadTokens, 0),
        !.requestCount = @ + 1,
        !.models = IF usage.model # "" THEN AddModel(@, usage.model) ELSE @,
        !.timeRange = UpdateTimeRange(@, EntryDate(entry))]

\* is this entry folded: an assistant message carrying a usage object
IsUsageEntry(entry) ==
    /\ entry.json = "object"
    /\ Get(entry.value, "type") = "message"
    /\ Get(entry.value, "sender") = "assistant"
    /\ ExtractMessageUsage(entry.value).present

\* extractUsageData(entries); threw: reading entry.type of null is a TypeError
RECURSIVE ExtractUsageLoop(_, _)
ExtractUsageLoop(entries, usageData) ==
    IF entries = <<>> THEN usageData
    ELSE LET entry == Head(entries)
         IN  IF entry.json = "null" THEN [usageData EXCEPT !.threw = TRUE]
             ELSE IF IsUsageEntry(entry)
             THEN ExtractUsageLoop(Tail(entries),
                      FoldEntry(usageData, entry.value,
                                ExtractMessageUsage(entry.value)))
             ELSE ExtractUsageLoop(Tail(entries), usageData)

ExtractUsageData(entries) == ExtractUsageLoop(entries, EmptyUsageData)

EmptyProjectUsage(conversationCount) ==
    [totalTokens |-> 0, inputTokens |-> 0, outputTokens |-> 0,
     cacheCreationTokens |-> 0, cacheReadTokens |-> 0, requestCount |-> 0,
     conversationCount |-> conversationCount,
     models |-> <<>>, timeRange |-> [start |-> Null, end |-> Null]]

EmptyAllUsage ==
    [projects |-> <<>>,
     totals |-> [totalTokens |-> 0, inputTokens |-> 0, outputTokens |-> 0,
                 cacheCreationTokens |-> 0, cacheReadTokens |-> 0,
                 requestCount |-> 0, projectCount |-> 0],
     models |-> <<>>, timeRange |-> [start |-> Null, end |-> Null]]

RECURSIVE AddModels(_, _)
AddModels(models, more) ==
    IF more = <<>> THEN models ELSE AddModels(AddModel(models, Head(more)), Tail(more))

\* the time-range merge of getAllUsageData: a bound that is not null is truthy
MergeTimeRange(timeRange, other) ==
    [start |-> IF other.start # Null
                  /\ (timeRange.start = Null \/ DateLt(other.start, timeRange.start))
               THEN other.start ELSE timeRange.start,
     end |-> IF other.end # Null
                /\ (timeRange.end = Null \/ DateLt(timeRange.end, other.end))
             THEN other.end ELSE timeRange.end]

\* the inner loop of getAllUsageData over the conversations of one project;
\* threw: extractUsageData threw, the rest of the try block is skipped
RECURSIVE FoldConversations(_, _, _)
FoldConversations(conversations, projectUsage, allUsage) ==
    IF conversations = <<>>
    THEN [threw |-> FALSE, projectUsage |-> projectUsage, allUsage |-> allUsage]
    ELSE LET usageData == ExtractUsageData(Head(conversations).entries)
         IN  IF usageData.threw
             THEN [threw |-> TRUE, projectUsage |-> projectUsage, allUsage |-> allUsage]
             ELSE FoldConversations(Tail(conversations),
                    [projectUsage EXCEPT
                        !.totalTokens = @ + usageData.totalTokens,
                        !.inputTokens = @ + usageData.inputTokens,
                        !.outputTokens = @ + usageData.outputTokens,
                        !.cacheCreationTokens = @ + usageData.cacheCreationTokens,
                        !.cacheReadTokens = @ + usageData.cacheReadTokens,
                        !.requestCount = @ + usageData.requestCount,
                        !.models = AddModels(@, usageData.models),
                        !.timeRange = MergeTimeRange(@, usageData.timeRange)],
                    [allUsage EXCEPT
                        !.models = AddModels(@, usageData.models),
                        !.timeRange = MergeTimeRange(@, usageData.timeRange)])

\* a reader that counts every project it records as active
AddProjectCountingAll(allUsage, projectId, projectUsage) ==
    [allUsage EXCEPT
        !.projects = (projectId :> projectUsage) @@ @,
        !.totals = [@ EXCEPT
                       !.totalTokens = @ + projectUsage.totalTokens,
                       !.inputTokens = @ + projectUsage.inputTokens,
                       !.outputTokens = @ + projectUsage.outputTokens,
                       !.cacheCreationTokens = @ + projectUsage.cacheCreationTokens,
                       !.cacheReadTokens = @ + projectUsage.cacheReadTokens,
                       !.requestCount = @ + projectUsage.requestCount,
                       !.projectCount = @ + 1]]

\* a reader that adds the number of files of the project to the request count
AddProjectCountingFiles(allUsage, projectId, projectUsage) ==
    [allUsage EXCEPT
        !.projects = (projectId :> projectUsage) @@ @,
        !.totals = [@ EXCEPT
                       !.totalTokens = @ + projectUsage.totalTokens,
                       !.inputTokens = @ + projectUsage.inputTokens,
                       !.outputTokens = @ + projectUsage.outputTokens,
                       !.cacheCreationTokens = @ + projectUsage.cacheCreationTokens,
                       !.cacheReadTokens = @ + projectUsage.cacheReadTokens,
                       !.requestCount = @ + projectUsage.conversationCount]]

\* the end of the try block: the project is recorded and added to the totals
AddProject(allUsage, projectId, projectUsage) ==
    [allUsage EXCEPT
        !.projects = (projectId :> projectUsage) @@ @,
        !.totals = [totalTokens |-> @.totalTokens + projectUsage.totalTokens,
                    inputTokens |-> @.inputTokens + projectUsage.inputTokens,
                    outputTokens |-> @.outputTokens + projectUsage.outputTokens,
                    cacheCreationTokens |->
                        @.cacheCreationTokens + projectUsage.cacheCreationTokens,
                    cacheReadTokens |-> @.cacheReadTokens + projectUsage.cacheReadTokens,
                    requestCount |-> @.requestCount + projectUsage.requestCount,
                    projectCount |-> IF projectUsage.totalTokens > 0
                                     THEN @.projectCount + 1 ELSE @.projectCount]]

\* the outer loop of getAllUsageData over the projects
RECURSIVE FoldProjects(_, _, _, _, _)
FoldProjects(fs, c, t, projectList, allUsage) ==
    IF projectList = <<>> THEN [usage |-> allUsage, cache |-> c]
    ELSE LET projectId == Head(projectList)
             data == GetConversationData(fs, c, t, projectId)
             r == FoldConversations(data.conversations,
                                    EmptyProjectUsage(Len(data.conversations)),
                                    allUsage)
         IN  FoldProjects(fs, data.cache, t, Tail(projectList),
                          IF r.threw THEN r.allUsage
                          ELSE AddProject(r.allUsage, projectId, r.projectUsage))

\* a reader that lists the projects without looking whether baseDir exists
GetProjectsUnchecked == ProjectOrder

\* getProjects(): the directories of baseDir, sorted; none when baseDir is absent
GetProjects == IF baseDir = "missing" THEN <<>> ELSE ProjectOrder

\* getAllUsageData(): the aggregate returned and the cache afterwards
GetAllUsageData(fs, c, t) == FoldProjects(fs, c, t, GetProjects, EmptyAllUsage)

\* filterByDateRange(usageData, startDate, endDate)
FilterByDateRange(usageData, startDate, endDate) == usageData

----------------------------------------------------------------------------
(* TimeZone / DateRange, on a clock where a day is DayLen ticks long *)

DayLen == 2

\* getDateBounds(date): setHours(0, 0, 0, 0) and setHours(23, 59, 59, 999)
GetDateBounds(date) ==
    [start |-> (date \div DayLen) * DayLen,
     end |-> (date \div DayLen) * DayLen + DayLen - 1]

\* DateRange.today / yesterday / thisWeek / thisMonth; day 0 is a Sunday and a
\* first of the month, and a month has 30 days
DateRangeOf(period, t) ==
    LET day == t \div DayLen
    IN  CASE period = "today" -> GetDateBounds(t)
          [] period = "yesterday" -> GetDateBounds(t - DayLen)
          [] period = "week" ->
                [start |-> (day - (day % 7)) * DayLen,
                 end |-> (day - (day % 7) + 7) * DayLen - 1]
          [] period = "month" ->
                [start |-> (day - (day % 30)) * DayLen,
                 end |-> (day - (day % 30) + 30) * DayLen - 1]

KnownPeriods == {"today", "yesterday", "week", "month"}

\* DateRange.contains(date)
Contains(range, date) ==
    ~DateLt(date, range.start) /\ ~DateLt(range.end, date) /\ date # InvalidDate

----------------------------------------------------------------------------
(* ClaudeUsageMonitor *)

\* createSummaryTable(usageData): Intl.DateTimeFormat.format throws a
\* RangeError on an Invalid Date, with the configured zone and with UTC
SummaryTableThrows(usageData) ==
    /\ usageData.timeRange.start # Null
    /\ usageData.timeRange.end # Null
    /\ \/ usageData.timeRange.start = InvalidDate
       \/ usageData.timeRange.end = InvalidDate

\* formatSummary(usageData)
FormatSummary(usageData) ==
    [threw |-> SummaryTableThrows(usageData),
     totals |-> usageData.totals,
     projects |-> Cardinality(DOMAIN usageData.projects),
     timeRange |-> usageData.timeRange,
     models |-> usageData.models]

----------------------------------------------------------------------------
(* Spinner: timer is whether the interval timer of the spinner is active *)

\* new Spinner(...): no timer; visible if the stream is a terminal
NewSpinner(isTTY) == [timer |-> FALSE, isVisible |-> isTTY]

\* start(): nothing on a stream that is no terminal, else setInterval
SpinnerStart(spinner) ==
    IF ~spinner.isVisible THEN spinner ELSE [spinner EXCEPT !.timer = TRUE]

\* stop(finalText), and succeed and fail which call it: clearInterval
SpinnerStop(spinner) == [spinner EXCEPT !.timer = FALSE]

\* a catch block that rethrows without a word to the spinner
SpinnerInCatchSilent(spinner, quiet) == spinner

\* the catch block of an operation: if (!options.quiet) spinner.fail(...)
SpinnerInCatch(spinner, quiet) == IF ~quiet THEN SpinnerStop(spinner) ELSE spinner

\* the spinner over getSummary, getProjectDetails, listProjects and
\* getUsageByPeriod: started unless quiet, succeed after the log is loaded
\* unless quiet, and the catch block when something throws in the try block,
\* before the call of succeed (threwBefore) or after it (threwAfter)
SpinnerOver(quiet, isTTY, threwBefore, threwAfter) ==
    LET created == NewSpinner(isTTY)
        started == IF ~quiet THEN SpinnerStart(created) ELSE created
        loaded == IF ~quiet THEN SpinnerStop(started) ELSE started
    IN  [started |-> started.timer,
         timer |-> IF threwBefore THEN SpinnerInCatch(started, quiet).timer
                   ELSE IF threwAfter THEN SpinnerInCatch(loaded, quiet).timer
                   ELSE loaded.timer]

----------------------------------------------------------------------------
(* ClaudeUsageMonitor.getProjectDetails *)

EmptyProjectDetails ==
    [totalTokens |-> 0, inputTokens |-> 0, outputTokens |-> 0,
     cacheCreationTokens |-> 0, cacheReadTokens |-> 0, requestCount |-> 0,
     conversations |-> <<>>]

\* the loop of getProjectDetails over the conversations of the project;
\* threw: extractUsageData threw, and getProjectDetails rethrows from its catch
RECURSIVE FoldProjectDetails(_, _)
FoldProjectDetails(conversations, projectUsage) ==
    IF conversations = <<>> THEN [threw |-> FALSE, projectUsage |-> projectUsage]
    ELSE LET conversation == Head(conversations)
             usageData == ExtractUsageData(conversation.entries)
         IN  IF usageData.threw
             THEN [threw |-> TRUE, projectUsage |-> projectUsage]
             ELSE FoldProjectDetails(Tail(conversations),
                    [projectUsage EXCEPT
                        !.totalTokens = @ + usageData.totalTokens,
                        !.inputTokens = @ + usageData.inputTokens,
                        !.outputTokens = @ + usageData.outputTokens,
                        !.cacheCreationTokens = @ + usageData.cacheCreationTokens,
                        !.cacheReadTokens = @ + usageData.cacheReadTokens,
                        !.requestCount = @ + usageData.requestCount,
                        !.conversations =
                            Append(@, [fileName |-> conversation.file,
                                       modifiedTime |-> conversation.modifiedTime,
                                       usage |-> usageData])])

\* getProjectDetails(projectId, options): what it resolves with, or that it
\* rejects, and the cache afterwards; a project without conversations gives
\* an object with an error field
GetProjectDetails(fs, c, t, projectId) ==
    LET data == GetConversationData(fs, c, t, projectId)
        r == FoldProjectDetails(data.conversations, EmptyProjectDetails)
    IN  IF data.conversations = <<>>
        THEN [threw |-> FALSE, cache |-> data.cache,
              result |-> [project |-> projectId,
                          error |-> "No conversations found for this project"]]
        ELSE IF r.threw
        THEN [threw |-> TRUE, cache |-> data.cache]
        ELSE [threw |-> FALSE, cache |-> data.cache,
              result |-> [project |-> projectId, usage |-> r.projectUsage]]

----------------------------------------------------------------------------
(* PlanConfig *)

PLANS ==
    [pro |-> [name |-> "Claude Pro", limit_per_5h |-> 1000, daily_limit |-> 5000],
     max5 |-> [name |-> "Claude Max5", limit_per_5h |-> 40, daily_limit |-> 200],
     max20 |-> [name |-> "Claude Max20", limit_per_5h |-> 160, daily_limit |-> 800],
     custom |-> [name |-> "Custom Plan", limit_per_5h |-> 100, daily_limit |-> 500]]

\* PlanConfig.listPlans()
ListPlans == DOMAIN PLANS

\* PlanConfig.getPlan(planName): PLANS[planName.toLowerCase()] || PLANS.pro
GetPlan(planName) == IF planName \in DOMAIN PLANS THEN PLANS[planName] ELSE PLANS.pro

----------------------------------------------------------------------------
(* ClaudeMonitorCLI *)

\* what the user may write after --plan: the four plans and a name that is none
PlanOptions == ListPlans \cup {"enterprise"}

\* ArgumentParser.parse(['--plan', plan, '--once']): the value of an option is
\* stored as given; the choices passed to addOption are not kept by the parser
ParseArgs(plan) ==
    [command |-> Null,
     options |-> [plan |-> plan, timezone |-> "UTC", once |-> TRUE, quiet |-> FALSE]]

\* new ClaudeUsageMonitor(options): the fields the constructor sets
NewMonitor(options) == [timezone |-> options.timezone, verbose |-> FALSE]

\* (x).toFixed(1) of num / den, in tenths: the nearest tenth, the larger one on
\* a tie (no tie occurs with the limits of pro, max5 and custom)
ToFixed1(num, den) == (2 * 10 * num + den) \div (2 * den)

Min(a, b) == IF a <= b THEN a ELSE b

SetOf(seq) == {seq[i] : i \in DOMAIN seq}

\* (totals.requestCount / dailyLimit * 100).toFixed(1), in tenths of a percent
DailyPercent(requestCount, plan) == ToFixed1(requestCount * 100, plan.daily_limit)

\* a display that leaves out Math.min(..., 100)
WindowPercentUncapped(requestCount, plan) ==
    ToFixed1(requestCount * 100, 5 * plan.limit_per_5h)

\* Math.min(totals.requestCount / 5 / windowLimit * 100, 100).toFixed(1)
WindowPercent(requestCount, plan) ==
    Min(ToFixed1(requestCount * 100, 5 * plan.limit_per_5h), 1000)

\* the status line: > 90 on either percentage, else > 75 on either, else normal
StatusOf(dailyPercent, windowPercent) ==
    IF dailyPercent > 900 \/ windowPercent > 900 THEN "critical"
    ELSE IF dailyPercent > 750 \/ windowPercent > 750 THEN "high"
    ELSE "normal"

\* a handler that prints what it has and returns 0 whatever the result holds
HandleProjectIgnoringError(details) == IF details.threw THEN 1 ELSE 0

\* handleProject(monitor, projectId, options), given what getProjectDetails
\* did: 1 from the catch, 1 when the result has an error field, else 0
HandleProject(details) ==
    IF details.threw THEN 1
    ELSE IF Has(details.result, "error") THEN 1
    ELSE 0

\* a predictor that leaves out the test currentWindowMessages < windowLimit
TimeToLimitUnguarded(requestCount, windowLimit) ==
    LET messagesRemaining == windowLimit - requestCount \div 5
    IN  IF requestCount > 0 /\ messagesRemaining < requestCount
        THEN [produced |-> TRUE, num |-> 24 * messagesRemaining, den |-> requestCount]
        ELSE [produced |-> FALSE]

\* the "Limit in ..." part of the burn-rate line: with burnRatePerHour =
\* requestCount / 24 positive and currentWindowMessages below the limit,
\* hoursToLimit = messagesRemaining / burnRatePerHour, the fraction num / den
\* here, is printed if it is below 24
TimeToLimit(requestCount, windowLimit) ==
    LET currentWindowMessages == requestCount \div 5
        messagesRemaining == windowLimit - currentWindowMessages
    IN  IF /\ requestCount > 0
           /\ currentWindowMessages < windowLimit
           /\ 24 * messagesRemaining < 24 * requestCount
        THEN [produced |-> TRUE, num |-> 24 * messagesRemaining, den |-> requestCount]
        ELSE [produced |-> FALSE]

\* displayMonitorData(monitor, options): what is printed for the aggregate
DisplayMonitorData(monitor, usageData) ==
    LET plan == IF Has(monitor, "plan") THEN monitor.plan ELSE GetPlan("pro")
        requestCount == usageData.totals.requestCount
        dailyPercent == DailyPercent(requestCount, plan)
        windowPercent == WindowPercent(requestCount, plan)
    IN  [planName |-> plan.name,
         windowLimit |-> plan.limit_per_5h,
         dailyLimit |-> plan.daily_limit,
         requestCount |-> requestCount,
         windowMessages |-> requestCount \div 5,
         dailyPercent |-> dailyPercent,
         windowPercent |-> windowPercent,
         prediction |-> TimeToLimit(requestCount, plan.limit_per_5h),
         status |-> StatusOf(dailyPercent, windowPercent)]

----------------------------------------------------------------------------
(* ClaudeMonitorCLI.run and the monitor mode, as a process on the event loop *)

\* the commands registered with the parser
Commands == {"monitor", "summary", "project", "projects", "today", "week",
             "month", "cache"}

\* the first positional word of a command line: none (""), monitor, or a
\* word that is not a command
Words == {"", "monitor", "frobnicate"}

\* ArgumentParser.parse([word, '--once'?]): a positional word is the command
\* if it is registered, and one more argument otherwise; "" stands for null
ParseArgv(word, once) ==
    [command |-> IF word \in Commands THEN word ELSE "",
     args |-> IF word \in Commands \/ word = "" THEN <<>> ELSE <<word>>,
     options |-> [plan |-> "pro", timezone |-> "UTC", once |-> once, quiet |-> FALSE]]

\* args.command || 'monitor'
CommandOf(args) == IF args.command # "" THEN args.command ELSE "monitor"

\* displayMonitorData written with asynchronous reads that it awaits
DisplayYieldsAwaitingIO == TRUE

\* whether displayMonitorData returns to the event loop before it is done: it
\* holds no await, and getAllUsageData reads the log with readFileSync
DisplayYields == FALSE

\* no process yet
NoProcess ==
    [pc |-> "none", word |-> "", command |-> "", argvOnce |-> FALSE,
     isOnce |-> FALSE, timer |-> FALSE, handler |-> FALSE, sigint |-> FALSE,
     interrupted |-> FALSE, running |-> 0, refreshes |-> 0, displays |-> 0,
     reported |-> "", returned |-> Null, exit |-> Null, spinner |-> FALSE]

\* a handler that stops the timer and leaves the process running
OnSigintWithoutExit(p) ==
    [p EXCEPT !.timer = FALSE, !.sigint = FALSE, !.interrupted = TRUE]

\* the SIGINT listener of handleMonitor: clearInterval(interval), a message,
\* process.exit(0)
OnSigint(p) ==
    [p EXCEPT !.timer = FALSE, !.sigint = FALSE, !.interrupted = TRUE,
              !.pc = "exited", !.exit = 0]

----------------------------------------------------------------------------
(* State *)

\* the content the files start with, and what the writer may leave in a file
ContentA == <<LineA1>>
ContentB == <<LineA1, LineA2>>
ContentC == <<LineUndated, LineTotal>>
Contents == {ContentB, ContentC}

\* the conversation in progress: the file that is still being written
ActiveFile == PathOrder[1]

MTimes == 1..MaxMTime

NeverRead == [called |-> FALSE, status |-> "ok", mtime |-> 0, content |-> <<>>]
NoParse == [at |-> Null, data |-> <<>>]
NoReads == <<>>

\* the files a directory listing shows
Listed == IF baseDir = "missing" THEN {}
          ELSE {path \in Paths : files[path].status # "missing"}

\* what readJSONLFile returns for each path of a set, from the current state
ReadsOf(paths) ==
    [path \in paths |->
        LET r == ReadJSONLFile(files, cache, now, path)
        IN  [entries |-> r.entries, parsed |-> r.parsed,
             warnings |-> r.warnings, errors |-> r.errors]]

\* history of the readJSONLFile calls an operation makes
NoteReads(paths) ==
    /\ prevRead' = [path \in Paths |->
                      IF path \in paths
                      THEN [called |-> TRUE, status |-> files[path].status,
                            mtime |-> files[path].mtime,
                            content |-> files[path].content]
                      ELSE prevRead[path]]
    /\ firstParse' = [path \in Paths |->
                        LET r == ReadJSONLFile(files, cache, now, path)
                        IN  IF path \in paths /\ r.parsed
                            THEN [at |-> now, data |-> r.entries]
                            ELSE firstParse[path]]

InitReader ==
    /\ cache = <<>>
    /\ ret = [op |-> "new", reads |-> NoReads]
    /\ prevRead = [path \in Paths |-> NeverRead]
    /\ firstParse = [path \in Paths |-> NoParse]
    /\ lastAll = [valid |-> FALSE, usage |-> EmptyAllUsage]
    /\ dirty = FALSE
    /\ mods = 0
    /\ baseDir = "ok"
    /\ proc = NoProcess

NoFile == [status |-> "missing", mtime |-> 0, content |-> <<>>]

\* the reader is constructed over a directory of two short conversation files,
\* one per project; the name of a third one is known but the file is not there
Init ==
    /\ files = [path \in Paths |->
                  IF path = PathOrder[2] THEN NoFile
                  ELSE [status |-> "ok", mtime |-> 1, content |-> ContentA]]
    /\ now = 0
    /\ InitReader

\* the reader is constructed over a directory of three short conversation files
InitAll ==
    /\ files = [path \in Paths |->
                  [status |-> "ok", mtime |-> 1, content |-> ContentA]]
    /\ now = 0
    /\ InitReader

\* the reader is constructed over a directory of empty conversation files
InitFold ==
    /\ files = [path \in Paths |-> [status |-> "ok", mtime |-> 1, content |-> <<>>]]
    /\ now = DayLen
    /\ InitReader

----------------------------------------------------------------------------
(* The environment *)

\* time passes
Tick ==
    /\ now < MaxTime
    /\ now' = now + 1
    /\ ret' = [op |-> "tick", reads |-> NoReads]
    /\ UNCHANGED <<files, cache, prevRead, firstParse, lastAll, dirty, mods, baseDir, proc>>

\* another process rewrites a conversation file; the modification time is
\* whatever the file system (or utimes) stamps on it
WriteFile(path, content, mtime) ==
    /\ mods < MaxMods
    /\ files[path].status = "ok"
    /\ <<content, mtime>> # <<files[path].content, files[path].mtime>>
    /\ files' = [files EXCEPT ![path].content = content, ![path].mtime = mtime]
    /\ mods' = mods + 1
    /\ dirty' = TRUE
    /\ firstParse' = IF mtime = files[path].mtime THEN firstParse
                     ELSE [firstParse EXCEPT ![path] = NoParse]
    /\ ret' = [op |-> "write", reads |-> NoReads]
    /\ UNCHANGED <<cache, now, prevRead, lastAll, baseDir, proc>>

\* a conversation file loses its read permission
Chmod(path) ==
    /\ mods < MaxMods
    /\ files[path].status = "ok"
    /\ files' = [files EXCEPT ![path].status = "unreadable"]
    /\ mods' = mods + 1
    /\ dirty' = TRUE
    /\ ret' = [op |-> "chmod", reads |-> NoReads]
    /\ UNCHANGED <<cache, now, prevRead, firstParse, lastAll, baseDir, proc>>

\* a conversation file is removed
Unlink(path) ==
    /\ mods < MaxMods
    /\ files[path].status # "missing"
    /\ files' = [files EXCEPT ![path] = NoFile]
    /\ mods' = mods + 1
    /\ dirty' = TRUE
    /\ ret' = [op |-> "unlink", reads |-> NoReads]
    /\ UNCHANGED <<cache, now, prevRead, firstParse, lastAll, baseDir, proc>>

\* the base directory is removed with everything in it
RemoveBaseDir ==
    /\ mods < MaxMods
    /\ baseDir = "ok"
    /\ baseDir' = "missing"
    /\ files' = [path \in Paths |-> NoFile]
    /\ mods' = mods + 1
    /\ dirty' = TRUE
    /\ ret' = [op |-> "rmdir", reads |-> NoReads]
    /\ UNCHANGED <<cache, now, prevRead, firstParse, lastAll, proc>>

TotalLines == Len(files[PathOrder[1]].content) + Len(files[PathOrder[2]].content)
              + Len(files[PathOrder[3]].content)

\* the conversation log grows by a line, before the reader has read anything
AppendLine(path, line) ==
    /\ cache = <<>>
    /\ TotalLines < MaxLines
    /\ files' = [files EXCEPT ![path].content = Append(@, line)]
    /\ ret' = [op |-> "append", reads |-> NoReads]
    /\ UNCHANGED <<cache, now, prevRead, firstParse, lastAll, dirty, mods, baseDir, proc>>

----------------------------------------------------------------------------
(* The operations of the reader and of the monitor *)

\* ClaudeDataReader.readJSONLFile(filePath)
CallReadJSONLFile(filePath) ==
    /\ cache' = ReadJSONLFile(files, cache, now, filePath).cache
    /\ ret' = [op |-> "readJSONLFile", reads |-> ReadsOf({filePath})]
    /\ NoteReads({filePath})
    /\ UNCHANGED <<files, now, lastAll, dirty, mods, baseDir, proc>>

\* ClaudeDataReader.getAllUsageData()
CallGetAllUsageData ==
    LET r == GetAllUsageData(files, cache, now)
    IN  /\ cache' = r.cache
        /\ ret' = [op |-> "getAllUsageData", reads |-> ReadsOf(Listed),
                   usage |-> r.usage]
        /\ lastAll' = [valid |-> TRUE, usage |-> r.usage]
        /\ dirty' = FALSE
        /\ NoteReads(Listed)
        /\ UNCHANGED <<files, now, mods, baseDir, proc>>

\* ClaudeDataReader.clearCache()
ClearCache ==
    /\ cache # <<>>
    /\ cache' = <<>>
    /\ firstParse' = [path \in Paths |-> NoParse]
    /\ ret' = [op |-> "clearCache", reads |-> NoReads]
    /\ UNCHANGED <<files, now, prevRead, lastAll, dirty, mods, baseDir, proc>>

\* getSummary, given what getAllUsageData returns (r)
GetSummaryFrom(r, quiet, isTTY) ==
    LET summary == FormatSummary(r.usage)
        spinner == SpinnerOver(quiet, isTTY, FALSE, summary.threw)
    IN  /\ cache' = r.cache
        /\ ret' = [op |-> "getSummary", reads |-> ReadsOf(Listed),
                   threw |-> summary.threw, summary |-> summary,
                   spinner |-> spinner]
        /\ proc' = [proc EXCEPT !.spinner = spinner.timer]
        /\ lastAll' = [valid |-> TRUE, usage |-> r.usage]
        /\ dirty' = FALSE
        /\ NoteReads(Listed)
        /\ UNCHANGED <<files, now, mods, baseDir>>

\* ClaudeUsageMonitor.getSummary({quiet}), on a stdout that is a terminal or not
GetSummaryWith(quiet, isTTY) ==
    GetSummaryFrom(GetAllUsageData(files, cache, now), quiet, isTTY)

\* ClaudeUsageMonitor.getSummary({quiet: true})
GetSummary == GetSummaryWith(TRUE, FALSE)

\* getUsageByPeriod for a known period, given what getAllUsageData returns (r)
GetUsageByPeriodFrom(r, period, quiet, isTTY) ==
    LET dateRange == DateRangeOf(period, now)
        usageData == FilterByDateRange(r.usage, dateRange.start, dateRange.end)
        threw == FormatSummary(usageData).threw
        spinner == SpinnerOver(quiet, isTTY, FALSE, threw)
    IN  /\ cache' = r.cache
        /\ ret' = [op |-> "getUsageByPeriod", reads |-> ReadsOf(Listed),
                   period |-> period, threw |-> threw,
                   dateRange |-> dateRange, usage |-> usageData,
                   spinner |-> spinner]
        /\ proc' = [proc EXCEPT !.spinner = spinner.timer]
        /\ lastAll' = [valid |-> TRUE, usage |-> r.usage]
        /\ dirty' = FALSE
        /\ NoteReads(Listed)
        /\ UNCHANGED <<files, now, mods, baseDir>>

\* ClaudeUsageMonitor.getUsageByPeriod(period, {quiet}): an unknown period
\* throws before the log is read
GetUsageByPeriodWith(period, quiet, isTTY) ==
    IF period \notin KnownPeriods
    THEN LET spinner == SpinnerOver(quiet, isTTY, TRUE, FALSE)
         IN  /\ ret' = [op |-> "getUsageByPeriod", reads |-> NoReads,
                        period |-> period, threw |-> TRUE, spinner |-> spinner]
             /\ proc' = [proc EXCEPT !.spinner = spinner.timer]
             /\ UNCHANGED <<files, cache, now, prevRead, firstParse, lastAll, dirty,
                            mods, baseDir>>
    ELSE GetUsageByPeriodFrom(GetAllUsageData(files, cache, now), period, quiet, isTTY)

\* ClaudeUsageMonitor.getUsageByPeriod(period, {quiet: true})
GetUsageByPeriod(period) == GetUsageByPeriodWith(period, TRUE, FALSE)

\* listProjects, given what getAllUsageData returns (r)
ListProjectsFrom(r, quiet, isTTY) ==
    LET spinner == SpinnerOver(quiet, isTTY, FALSE, FALSE)
    IN  /\ cache' = r.cache
        /\ ret' = [op |-> "listProjects", reads |-> ReadsOf(Listed), threw |-> FALSE,
                   projects |-> r.usage.projects, spinner |-> spinner]
        /\ proc' = [proc EXCEPT !.spinner = spinner.timer]
        /\ lastAll' = [valid |-> TRUE, usage |-> r.usage]
        /\ dirty' = FALSE
        /\ NoteReads(Listed)
        /\ UNCHANGED <<files, now, mods, baseDir>>

\* ClaudeUsageMonitor.listProjects({quiet})
ListProjects(quiet, isTTY) ==
    ListProjectsFrom(GetAllUsageData(files, cache, now), quiet, isTTY)

\* the project ids a caller may ask for: the directories and one that is none
ProjectIds == Projects \cup {"p3"}

\* handleProject, given what getProjectDetails does (details)
HandleProjectFrom(details, projectId, quiet, isTTY) ==
    LET paths == SetOf(GetConversationFiles(files, projectId))
        spinner == SpinnerOver(quiet, isTTY, FALSE, details.threw)
    IN  /\ cache' = details.cache
        /\ ret' = [op |-> "getProjectDetails", reads |-> ReadsOf(paths),
                   project |-> projectId, details |-> details,
                   threw |-> details.threw,
                   exit |-> HandleProject(details), spinner |-> spinner]
        /\ proc' = [proc EXCEPT !.spinner = spinner.timer]
        /\ NoteReads(paths)
        /\ UNCHANGED <<files, now, lastAll, dirty, mods, baseDir>>

\* ClaudeMonitorCLI.handleProject(monitor, projectId, {quiet}) on the monitor
\* at hand: getProjectDetails(projectId, {quiet}) and the exit code
CallGetProjectDetailsWith(projectId, quiet, isTTY) ==
    HandleProjectFrom(GetProjectDetails(files, cache, now, projectId),
                      projectId, quiet, isTTY)

\* handleProject(monitor, projectId, {quiet: true})
CallGetProjectDetails(projectId) == CallGetProjectDetailsWith(projectId, TRUE, FALSE)

\* ClaudeMonitorCLI.run(['--plan', plan, '--once']) from the command line
\* (process.argv holds the same words): the default command is monitor;
\* handleMonitor displays once and returns 0, and the process exits with it
RunMonitorOnce(plan) ==
    LET args == ParseArgs(plan)
        monitor == NewMonitor(args.options)
        r == GetAllUsageData(files, cache, now)
    IN  /\ cache' = r.cache
        /\ ret' = [op |-> "run", reads |-> ReadsOf(Listed), plan |-> plan,
                   exit |-> 0, out |-> DisplayMonitorData(monitor, r.usage)]
        /\ lastAll' = [valid |-> TRUE, usage |-> r.usage]
        /\ dirty' = FALSE
        /\ NoteReads(Listed)
        /\ proc' = [proc EXCEPT !.pc = "exited", !.command = "monitor",
                                !.argvOnce = TRUE, !.isOnce = TRUE, !.displays = 1,
                                !.returned = 0, !.exit = 0]
        /\ UNCHANGED <<files, now, mods, baseDir>>

\* ClaudeMonitorCLI.displayMonitorData applied to the aggregate at hand
ApplyDisplayMonitorData ==
    /\ ret.op = "aggregate"
    /\ ret' = [op |-> "displayMonitorData", reads |-> NoReads, usage |-> ret.usage,
               out |-> DisplayMonitorData(NewMonitor(ParseArgs("pro").options),
                                          ret.usage)]
    /\ UNCHANGED <<files, cache, now, prevRead, firstParse, lastAll, dirty, mods,
                   baseDir, proc>>

----------------------------------------------------------------------------
(* The monitor mode, step by step *)

\* ClaudeMonitorCLI.run(argv), up to the call of displayMonitorData in
\* handleMonitor; argv holds the word and, if argvOnce, --once; process.argv
\* holds --once if processOnce.  handleMonitor takes isOnce from process.argv.
Run(word, argvOnce, processOnce) ==
    LET args == ParseArgv(word, argvOnce)
        command == CommandOf(args)
    IN  /\ proc.pc = "none"
        /\ proc' =
             IF command = "monitor"
             THEN [proc EXCEPT !.pc = "initial", !.word = word, !.command = command,
                               !.argvOnce = argvOnce,
                               !.isOnce = ParseArgv(word, processOnce).options.once,
                               !.running = 1]
             ELSE [proc EXCEPT !.pc = "exited", !.word = word, !.command = command,
                               !.argvOnce = argvOnce,
                               !.reported = "Unknown command",
                               !.returned = 1, !.exit = 1]
        /\ ret' = [op |-> "run", reads |-> NoReads]
        /\ UNCHANGED <<files, cache, now, prevRead, firstParse, lastAll, dirty, mods,
                       baseDir>>

\* a run of displayMonitorData returns: after the initial display
\* handleMonitor returns 0 (and main exits with it) if isOnce, else it starts
\* the refresh timer, registers the SIGINT listener and waits
DisplayReturns ==
    LET after == [proc EXCEPT !.running = @ - 1, !.displays = @ + 1]
    IN  /\ proc.pc \in {"initial", "refresh"}
        /\ proc.running > 0
        /\ proc' =
             IF proc.pc = "initial"
             THEN IF proc.isOnce
                  THEN [after EXCEPT !.pc = "exited", !.returned = 0, !.exit = 0]
                  ELSE [after EXCEPT !.pc = "idle", !.timer = TRUE, !.handler = TRUE]
             ELSE [after EXCEPT !.pc = IF after.running = 0 THEN "idle" ELSE "refresh"]

\* a run of displayMonitorData reads the log, prints and returns
DisplayMonitorDataEnds ==
    LET r == GetAllUsageData(files, cache, now)
        monitor == NewMonitor(ParseArgv(proc.word, proc.argvOnce).options)
    IN  /\ DisplayReturns
        /\ cache' = r.cache
        /\ ret' = [op |-> "monitor", reads |-> ReadsOf(Listed),
                   out |-> DisplayMonitorData(monitor, r.usage)]
        /\ lastAll' = [valid |-> TRUE, usage |-> r.usage]
        /\ dirty' = FALSE
        /\ NoteReads(Listed)
        /\ UNCHANGED <<files, now, mods, baseDir>>

\* the refresh timer fires: the callback clears the screen and calls
\* displayMonitorData.  The event loop runs a callback only when no other is
\* running, and a pending signal before the timers that became due meanwhile.
TimerFires ==
    /\ proc.timer
    /\ ~proc.sigint
    /\ proc.pc = "idle" \/ (proc.pc = "refresh" /\ DisplayYields)
    /\ proc.refreshes < MaxRefreshes
    /\ proc' = [proc EXCEPT !.pc = "refresh", !.refreshes = @ + 1, !.running = @ + 1]
    /\ ret' = [op |-> "timer", reads |-> NoReads]
    /\ UNCHANGED <<files, cache, now, prevRead, firstParse, lastAll, dirty, mods,
                   baseDir>>

\* the user presses Ctrl+C: with a listener registered the signal waits for the
\* event loop, without one it ends the process
Sigint ==
    /\ proc.pc \in {"initial", "idle", "refresh"}
    /\ ~proc.sigint
    /\ proc' = IF proc.handler THEN [proc EXCEPT !.sigint = TRUE]
               ELSE [proc EXCEPT !.pc = "killed"]
    /\ ret' = [op |-> "sigint", reads |-> NoReads]
    /\ UNCHANGED <<files, cache, now, prevRead, firstParse, lastAll, dirty, mods,
                   baseDir>>

\* the event loop runs the SIGINT listener
HandleSigint ==
    /\ proc.sigint
    /\ proc.handler
    /\ proc.pc = "idle" \/ (proc.pc = "refresh" /\ DisplayYields)
    /\ proc' = OnSigint(proc)
    /\ ret' = [op |-> "SIGINT listener", reads |-> NoReads]
    /\ UNCHANGED <<files, cache, now, prevRead, firstParse, lastAll, dirty, mods,
                   baseDir>>

----------------------------------------------------------------------------
(* Specifications *)

\* the reader's cache, while the conversation in progress is being rewritten
Next ==
    \/ Tick
    \/ \E content \in Contents, mtime \in MTimes : WriteFile(ActiveFile, content, mtime)
    \/ \E path \in Paths : CallReadJSONLFile(path)
    \/ ClearCache

Spec == Init /\ [][Next]_vars

\* repeated aggregation, while the conversation in progress is being rewritten
NextAll ==
    \/ Tick
    \/ \E content \in Contents, mtime \in MTimes : WriteFile(ActiveFile, content, mtime)
    \/ CallGetAllUsageData
    \/ ClearCache

SpecAll == InitAll /\ [][NextAll]_vars

\* a monitor asked for the aggregate and for the details of projects, while
\* the conversation in progress is being rewritten
NextProject ==
    \/ Tick
    \/ \E content \in Contents, mtime \in MTimes : WriteFile(ActiveFile, content, mtime)
    \/ CallGetAllUsageData
    \/ \E projectId \in ProjectIds : CallGetProjectDetails(projectId)

SpecProject == InitAll /\ [][NextProject]_vars

\* no operation of the reader has run yet
Fresh == ret.op \in {"new", "append"}

\* one command of the monitor, run over a log written beforehand
NextFold ==
    \/ \E path \in Paths, line \in Lines : AppendLine(path, line)
    \/ Fresh /\ CallGetAllUsageData
    \/ Fresh /\ GetSummary
    \/ \E period \in KnownPeriods \cup {"decade"} : Fresh /\ GetUsageByPeriod(period)

SpecFold == InitFold /\ [][NextFold]_vars

\* the reader is constructed over a log that holds a single message
InitUsage ==
    /\ \E entry \in UsageMessages :
          files = [path \in Paths |->
                     [status |-> "ok", mtime |-> 1,
                      content |-> IF path = ActiveFile THEN <<entry>> ELSE <<>>]]
    /\ now = DayLen
    /\ InitReader

NextUsage == Fresh /\ CallGetAllUsageData

SpecUsage == InitUsage /\ [][NextUsage]_vars

\* no operation of the reader has run yet
NotYetRun == ~lastAll.valid /\ \A path \in Paths : ~prevRead[path].called

\* one call of the reader over a directory in which files were rewritten, lost
\* their read permission or were removed beforehand
NextErr ==
    \/ \E path \in Paths, content \in Contents, mtime \in MTimes :
          NotYetRun /\ WriteFile(path, content, mtime)
    \/ \E path \in Paths : NotYetRun /\ Chmod(path)
    \/ \E path \in Paths : NotYetRun /\ Unlink(path)
    \/ NotYetRun /\ RemoveBaseDir
    \/ \E path \in Paths : NotYetRun /\ CallReadJSONLFile(path)
    \/ NotYetRun /\ CallGetAllUsageData

SpecErr == InitAll /\ [][NextErr]_vars

\* one request for the details of a project, on a reader that may have
\* aggregated the log before, over files rewritten or removed beforehand
NextDetails ==
    \/ \E path \in Paths, content \in Contents, mtime \in MTimes :
          NotYetRun /\ WriteFile(path, content, mtime)
    \/ \E path \in Paths : NotYetRun /\ Unlink(path)
    \/ NotYetRun /\ CallGetAllUsageData
    \/ \E projectId \in ProjectIds :
          ret.op # "getProjectDetails" /\ CallGetProjectDetails(projectId)

SpecDetails == InitAll /\ [][NextDetails]_vars

\* one run of the command line, with a plan, over a log rewritten beforehand
NextCli ==
    \/ \E path \in Paths, content \in Contents, mtime \in MTimes :
          NotYetRun /\ WriteFile(path, content, mtime)
    \/ \E plan \in PlanOptions : NotYetRun /\ RunMonitorOnce(plan)

SpecCli == InitAll /\ [][NextCli]_vars

\* one process of the command line in monitor mode, while the conversation
\* in progress is being rewritten and the user may interrupt
NextMonitor ==
    \/ \E word \in Words, argvOnce \in BOOLEAN, processOnce \in BOOLEAN :
          Run(word, argvOnce, processOnce)
    \/ DisplayMonitorDataEnds
    \/ TimerFires
    \/ Sigint
    \/ HandleSigint
    \/ \E content \in Contents, mtime \in MTimes :
          proc.pc \notin {"exited", "killed"}
          /\ WriteFile(ActiveFile, content, mtime)

SpecMonitor == InitAll /\ [][NextMonitor]_vars

\* a callback that runs returns (the steps of DisplayMonitorDataEnds are the
\* steps that change proc as DisplayReturns says), and the event loop runs a
\* pending listener
SpecMonitorLive ==
    SpecMonitor /\ WF_proc(DisplayReturns) /\ WF_vars(HandleSigint)

\* the lines of a log with which the operations of the monitor succeed, throw
\* while formatting, or throw while extracting
SpinnerLines == {LineA1, LineUndated, LineNull}

\* one operation of the monitor, quiet or not, on a terminal or not, over a
\* log written beforehand
NextSpinner ==
    \/ \E path \in Paths, line \in SpinnerLines : AppendLine(path, line)
    \/ \E quiet \in BOOLEAN, isTTY \in BOOLEAN : Fresh /\ GetSummaryWith(quiet, isTTY)
    \/ \E period \in KnownPeriods \cup {"decade"}, quiet \in BOOLEAN, isTTY \in BOOLEAN :
          Fresh /\ GetUsageByPeriodWith(period, quiet, isTTY)
    \/ \E projectId \in ProjectIds, quiet \in BOOLEAN, isTTY \in BOOLEAN :
          Fresh /\ CallGetProjectDetailsWith(projectId, quiet, isTTY)
    \/ \E quiet \in BOOLEAN, isTTY \in BOOLEAN : Fresh /\ ListProjects(quiet, isTTY)

SpecSpinner == InitFold /\ [][NextSpinner]_vars

\* request counts from none to beyond every limit, in steps of 125, and the
\* counts next to three quarters and nine tenths of the limits of Claude Pro
RequestCounts ==
    {125 * k : k \in 0..MaxBatches} \cup (3749..3754) \cup (4499..4504)
    \cup {4999, 5001, 1000000}

\* the display is handed the aggregate of a log with any of these counts
InitDisplay ==
    /\ files = [path \in Paths |-> [status |-> "ok", mtime |-> 1, content |-> <<>>]]
    /\ now = 0
    /\ cache = <<>>
    /\ \E n \in RequestCounts :
          ret = [op |-> "aggregate", reads |-> NoReads,
                 usage |-> [EmptyAllUsage EXCEPT !.totals.requestCount = n]]
    /\ prevRead = [path \in Paths |-> NeverRead]
    /\ firstParse = [path \in Paths |-> NoParse]
    /\ lastAll = [valid |-> FALSE, usage |-> EmptyAllUsage]
    /\ dirty = FALSE
    /\ mods = 0
    /\ baseDir = "ok"
    /\ proc = NoProcess

NextDisplay == ApplyDisplayMonitorData

SpecDisplay == InitDisplay /\ [][NextDisplay]_vars

----------------------------------------------------------------------------
(* Reference definitions for the properties *)

NumericFields == {"totalTokens", "inputTokens", "outputTokens",
                  "cacheCreationTokens", "cacheReadTokens"}

RECURSIVE SumField(_, _)
SumField(records, field) ==
    IF records = <<>> THEN 0
    ELSE Head(records)[field] + SumField(Tail(records), field)

RECURSIVE Flatten(_)
Flatten(seqs) == IF seqs = <<>> THEN <<>> ELSE Head(seqs) \o Flatten(Tail(seqs))

\* the lines of a file that are usage-bearing assistant messages
UsageLines(fs, path) ==
    IF fs[path].status = "ok"
    THEN SelectSeq(ParseLines(fs[path].content), IsUsageEntry)
    ELSE <<>>

RecordOf(line) == ExtractMessageUsage(line.value)

RecordsOf(lines) == [i \in DOMAIN lines |-> RecordOf(lines[i])]

\* the usage lines of all files of the given projects
LinesOfProjects(fs, projectIds) ==
    Flatten([i \in DOMAIN PathOrder |->
                IF DirOf[PathOrder[i]] \in projectIds
                THEN UsageLines(fs, PathOrder[i]) ELSE <<>>])

HasNullLine(fs) ==
    \E path \in Paths : \E i \in DOMAIN fs[path].content :
        fs[path].content[i].json = "null"

Undated(line) == RecordOf(line).timestamp = InvalidDate

ValidDates(lines) ==
    {RecordOf(lines[i]).timestamp : i \in DOMAIN lines} \ {InvalidDate}

MinOf(dates) == IF dates = {} THEN Null ELSE CHOOSE x \in dates : \A y \in dates : x <= y
MaxOf(dates) == IF dates = {} THEN Null ELSE CHOOSE x \in dates : \A y \in dates : x >= y

ExpectedTimeRange(lines) ==
    [start |-> MinOf(ValidDates(lines)), end |-> MaxOf(ValidDates(lines))]


----------------------------------------------------------------------------
(* C1: after readJSONLFile(path), a change of both the content and the     *)
(* modification time of the file, and a second readJSONLFile(path), the    *)
(* second call returns the records parsed from the new content.            *)

C1_SecondReadSeesNewContent ==
    [][\A path \in Paths :
          ( /\ path \in DOMAIN ret'.reads
            /\ prevRead[path].called
            /\ prevRead[path].status = "ok" /\ files[path].status = "ok"
            /\ prevRead[path].mtime # files[path].mtime
            /\ prevRead[path].content # files[path].content )
          => ret'.reads[path].entries = ParseLines(files[path].content)]_vars

(* C2: when a call read and parsed a readable file, and the next call for   *)
(* the same path comes less than cacheTimeout later, the modification time  *)
(* unchanged and the cache not cleared in between, the second call does not *)
(* read the file again and returns the records the first call cached.       *)

C2_NoRedundantParse ==
    [][\A path \in Paths :
          ( /\ path \in DOMAIN ret'.reads
            /\ files[path].status = "ok"
            /\ firstParse[path].at # Null
            /\ now - firstParse[path].at < cacheTimeout )
          => /\ ~ret'.reads[path].parsed
             /\ ret'.reads[path].entries = firstParse[path].data
             /\ cache' = cache]_vars

\* a call served from the cache one tick after the call that parsed the file
C2_Witness ==
    \E path \in Paths :
        /\ ret.op = "readJSONLFile" /\ path \in DOMAIN ret.reads
        /\ files[path].status = "ok"
        /\ ~ret.reads[path].parsed
        /\ firstParse[path].at # Null /\ firstParse[path].at < now
        /\ now - firstParse[path].at < cacheTimeout
        /\ ret.reads[path].entries = firstParse[path].data

(* C3: once readJSONLFile(path) has returned, the cache holds no entry for  *)
(* the path under another modification time than the file's current one,    *)
(* none older than cacheTimeout, and never more entries than paths read.    *)

C3_StaleEntriesEvicted ==
    /\ \A path \in DOMAIN ret.reads : \A key \in DOMAIN cache :
          key[1] = path => /\ key[2] = GetFileModTime(files, path)
                           /\ now - cache[key].timestamp <= cacheTimeout
    /\ Cardinality(DOMAIN cache) <= Cardinality({path \in Paths : prevRead[path].called})

----------------------------------------------------------------------------
(* C4: every numeric field of a project's aggregate is the sum of the field *)
(* over the usage records of the project's files, requestCount is the       *)
(* number of those records, and the global totals are the sums over the     *)
(* projects of the result; every project is in the result when no line of   *)
(* the log is the literal null.                                             *)

C4_SumInvariant ==
    ret.op = "getAllUsageData" =>
        LET usage == ret.usage
            present == DOMAIN usage.projects
        IN  /\ \A q \in present :
                 LET records == RecordsOf(LinesOfProjects(files, {q}))
                 IN  /\ \A f \in NumericFields :
                            usage.projects[q][f] = SumField(records, f)
                     /\ usage.projects[q].requestCount = Len(records)
            /\ LET records == RecordsOf(LinesOfProjects(files, present))
               IN  /\ \A f \in NumericFields : usage.totals[f] = SumField(records, f)
                   /\ usage.totals.requestCount = Len(records)
            /\ ~HasNullLine(files) => present = Projects

\* two records in one file of one project: one file, two requests
C4_Witness ==
    /\ ret.op = "getAllUsageData"
    /\ \E q \in DOMAIN ret.usage.projects :
          /\ ret.usage.projects[q].conversationCount = 1
          /\ ret.usage.projects[q].requestCount = 2
          /\ ret.usage.projects[q].inputTokens > 0
    /\ ret.usage.totals.requestCount = 2

(* C5: a record whose usage object supplies no total has the sum of its     *)
(* four token fields as totalTokens, so that a project's totalTokens is the *)
(* sum of the supplied totals and of these sums (10/20, 5/5, 0/0 gives 40). *)

TotalSupplied(line) ==
    LET usage == FindUsage(line.value)
    IN  Has(usage, "total_tokens") \/ Has(usage, "totalTokens")

ExpectedTotal(line) ==
    LET r == RecordOf(line)
    IN  IF TotalSupplied(line) THEN r.totalTokens
        ELSE r.inputTokens + r.outputTokens + r.cacheCreationTokens + r.cacheReadTokens

RECURSIVE SumExpectedTotal(_)
SumExpectedTotal(lines) ==
    IF lines = <<>> THEN 0
    ELSE ExpectedTotal(Head(lines)) + SumExpectedTotal(Tail(lines))

C5_TotalTokensFallback ==
    ret.op = "getAllUsageData" =>
        \A q \in DOMAIN ret.usage.projects :
            ret.usage.projects[q].totalTokens =
                SumExpectedTotal(LinesOfProjects(files, {q}))

(* C6: the aggregate returned for a period is the fold of exactly the       *)
(* records whose timestamp lies in the range of the period, bounds included.*)

InRange(lines, range) ==
    SelectSeq(lines, LAMBDA line : Contains(range, RecordOf(line).timestamp))

C6_PeriodFilter ==
    (ret.op = "getUsageByPeriod" /\ ~ret.threw) =>
        LET records == RecordsOf(InRange(
                           LinesOfProjects(files, DOMAIN ret.usage.projects),
                           ret.dateRange))
        IN  /\ \A f \in NumericFields : ret.usage.totals[f] = SumField(records, f)
            /\ ret.usage.totals.requestCount = Len(records)

(* C7: a record without a usable timestamp contributes nothing to the       *)
(* result of a period filter, is counted in the unfiltered aggregate, and   *)
(* the summary of the unfiltered aggregate is produced without error.       *)

\* the same files without the usage lines that carry no usable timestamp
StripUndated(fs) ==
    [path \in Paths |->
        [fs[path] EXCEPT !.content =
            SelectSeq(@, LAMBDA line : ~(IsUsageEntry(line) /\ Undated(line)))]]

C7_UndatedRecords ==
    /\ (ret.op = "getUsageByPeriod" /\ ~ret.threw) =>
          ret.usage.totals =
              FilterByDateRange(GetAllUsageData(StripUndated(files), <<>>, now).usage,
                                ret.dateRange.start, ret.dateRange.end).totals
    /\ ret.op = "getAllUsageData" =>
          ret.usage.totals.requestCount =
              Len(LinesOfProjects(files, DOMAIN ret.usage.projects))
    /\ ret.op = "getSummary" => ~ret.threw

(* C8: at conversation, project and global level, timeRange.start is the    *)
(* least and timeRange.end the greatest timestamp among the records that    *)
(* carry a valid one, and both are null when there is none.                 *)

C8_TimeRange ==
    ret.op = "getAllUsageData" =>
        /\ \A path \in DOMAIN ret.reads :
              LET usageData == ExtractUsageData(ret.reads[path].entries)
              IN  ~usageData.threw =>
                      usageData.timeRange = ExpectedTimeRange(UsageLines(files, path))
        /\ \A q \in DOMAIN ret.usage.projects :
              ret.usage.projects[q].timeRange =
                  ExpectedTimeRange(LinesOfProjects(files, {q}))
        /\ ~HasNullLine(files) =>
              ret.usage.timeRange = ExpectedTimeRange(LinesOfProjects(files, Projects))

(* C9: extractUsageData gives the same totals, the same set of models and   *)
(* the same timeRange for every ordering of the entries, and the global     *)
(* aggregate is the same whichever order the projects are visited in.       *)

SameAggregate(a, b) ==
    /\ \A f \in NumericFields \cup {"requestCount"} : a[f] = b[f]
    /\ SetOf(a.models) = SetOf(b.models)
    /\ a.timeRange = b.timeRange

Reverse(seq) == [i \in DOMAIN seq |-> seq[Len(seq) + 1 - i]]

C9_OrderIndependent ==
    ret.op = "getAllUsageData" =>
        /\ \A path \in DOMAIN ret.reads :
              LET entries == ret.reads[path].entries
                  a == ExtractUsageData(entries)
              IN  \A perm \in Permutations(DOMAIN entries) :
                      LET b == ExtractUsageData([i \in DOMAIN entries |-> entries[perm[i]]])
                      IN  a.threw = b.threw /\ (~a.threw => SameAggregate(a, b))
        /\ LET other == FoldProjects(files, <<>>, now, Reverse(GetProjects),
                                     EmptyAllUsage).usage
           IN  /\ SameAggregate(ret.usage.totals @@ ret.usage,
                                other.totals @@ other)
               /\ ret.usage.projects = other.projects

(* C10: while no file changes, every getAllUsageData call on the same       *)
(* reader returns the same aggregate as the one before it, served from the  *)
(* cache, re-parsed after the timeout, or after clearCache.                 *)

C10_Deterministic ==
    [][(ret'.op = "getAllUsageData" /\ lastAll.valid /\ ~dirty)
          => ret'.usage = lastAll.usage]_vars

----------------------------------------------------------------------------
(* C11: whatever the lines of the files are (usage records, malformed JSON, *)
(* null, scalars, objects without usage), getAllUsageData returns every     *)
(* project, and the per-project and global totals are the fold of all the   *)
(* valid usage-bearing lines of all files: a bad line removes nothing else. *)

C11_LineFaultIsolation ==
    ret.op = "getAllUsageData" =>
        /\ DOMAIN ret.usage.projects = SetOf(GetProjects)
        /\ \A q \in DOMAIN ret.usage.projects :
              LET records == RecordsOf(LinesOfProjects(files, {q}))
              IN  /\ \A f \in NumericFields :
                         ret.usage.projects[q][f] = SumField(records, f)
                  /\ ret.usage.projects[q].requestCount = Len(records)
        /\ LET records == RecordsOf(LinesOfProjects(files, Projects))
           IN  /\ \A f \in NumericFields : ret.usage.totals[f] = SumField(records, f)
               /\ ret.usage.totals.requestCount = Len(records)

(* C12: a read of a file with malformed lines returns exactly the lines     *)
(* that parse, in file order, and logs one warning per malformed line.      *)

RECURSIVE ValidLinesInOrder(_)
ValidLinesInOrder(content) ==
    IF content = <<>> THEN <<>>
    ELSE (IF Head(content).json = "malformed" THEN <<>> ELSE <<Head(content)>>)
         \o ValidLinesInOrder(Tail(content))

MalformedLines(content) ==
    Cardinality({i \in DOMAIN content : content[i].json = "malformed"})

C12_MalformedLineSkipped ==
    \A path \in DOMAIN ret.reads :
        (files[path].status = "ok" /\ ret.reads[path].parsed) =>
            /\ ret.reads[path].entries = ValidLinesInOrder(files[path].content)
            /\ ret.reads[path].warnings = MalformedLines(files[path].content)

\* a malformed line followed by a usage record: the record is returned and folded
C12_Witness ==
    /\ ret.op = "getAllUsageData"
    /\ \E path \in DOMAIN ret.reads :
          /\ files[path].content = <<LineMalformed, LineTotal>>
          /\ ret.reads[path].entries = <<LineTotal>>
          /\ ret.reads[path].warnings = 1
    /\ ret.usage.totals.totalTokens = 9

----------------------------------------------------------------------------
(* C13: readJSONLFile of a file that cannot be opened or read returns no    *)
(* entries, and the project and global aggregates of getAllUsageData are    *)
(* the fold over the files that can be read.                                *)

C14_AbsentBaseDir ==
    (baseDir = "missing" /\ ret.op = "getAllUsageData") =>
        /\ ret.reads = <<>>
        /\ DOMAIN ret.usage.projects = {}
        /\ \A f \in NumericFields \cup {"requestCount", "projectCount"} :
              ret.usage.totals[f] = 0
        /\ ret.usage.models = <<>>
        /\ ret.usage.timeRange = [start |-> Null, end |-> Null]

C14_Witness ==
    /\ baseDir = "missing"
    /\ ret.op = "getAllUsageData"
    /\ ret.usage.projects = <<>>
    /\ ret.usage.totals.projectCount = 0

----------------------------------------------------------------------------
(* C15: totals.projectCount is the number of projects of the result whose   *)
(* totalTokens is positive; a project whose totalTokens is 0 is in the      *)
(* mapping all the same.                                                    *)

C15_ActiveProjectCount ==
    ret.op = "getAllUsageData" =>
        /\ ret.usage.totals.projectCount =
              Cardinality({q \in DOMAIN ret.usage.projects :
                              ret.usage.projects[q].totalTokens > 0})
        /\ \A q \in SetOf(GetProjects) :
              (\A path \in Paths : DirOf[path] = q =>
                    \A i \in DOMAIN files[path].content :
                        files[path].content[i].json # "null")
              => q \in DOMAIN ret.usage.projects

\* one project with tokens, one with none: both recorded, one counted
C15_Witness ==
    /\ ret.op = "getAllUsageData"
    /\ DOMAIN ret.usage.projects = Projects
    /\ \E q \in Projects : ret.usage.projects[q].totalTokens > 0
    /\ \E q \in Projects : ret.usage.projects[q].totalTokens = 0
    /\ ret.usage.totals.projectCount = 1

----------------------------------------------------------------------------
(* C16: the usage object of an entry is the first one found when looking at *)
(* usage, response.usage, metadata.usage and stats in this order; an entry  *)
(* with none of them changes no total and is not counted as a request.      *)

\* the usage objects of a message, in the order of the four locations
UsageCandidates(message) ==
    (IF "usage" \in DOMAIN message THEN <<message.usage>> ELSE <<>>)
    \o (IF "response" \in DOMAIN message /\ "usage" \in DOMAIN message.response
        THEN <<message.response.usage>> ELSE <<>>)
    \o (IF "metadata" \in DOMAIN message /\ "usage" \in DOMAIN message.metadata
        THEN <<message.metadata.usage>> ELSE <<>>)
    \o (IF "stats" \in DOMAIN message THEN <<message.stats>> ELSE <<>>)

C16_UsageLocationOrder ==
    (ret.op = "getAllUsageData" /\ Len(files[ActiveFile].content) = 1) =>
        LET message == files[ActiveFile].content[1].value
            found == UsageCandidates(message)
            totals == ret.usage.totals
        IN  IF message.sender = "assistant" /\ found # <<>>
            THEN /\ totals.requestCount = 1
                 /\ totals.inputTokens = Head(found).input_tokens
            ELSE /\ totals.requestCount = 0
                 /\ \A f \in NumericFields : totals[f] = 0

\* usage objects at the last three locations: the one of response.usage counts
C16_Witness ==
    /\ ret.op = "getAllUsageData"
    /\ Len(files[ActiveFile].content) = 1
    /\ LET message == files[ActiveFile].content[1].value
       IN  /\ message.sender = "assistant"
           /\ Len(UsageCandidates(message)) = 3
           /\ "usage" \notin DOMAIN message
    /\ ret.usage.totals.requestCount = 1
    /\ ret.usage.totals.inputTokens = 2

----------------------------------------------------------------------------
(* C17: a run with --plan P computes the window percent and the daily       *)
(* percent of the monitor display from P's limit_per_5h and daily_limit.    *)

C17_SelectedPlanApplied ==
    (ret.op = "run" /\ ret.plan \in DOMAIN PLANS) =>
        /\ ret.out.windowLimit = PLANS[ret.plan].limit_per_5h
        /\ ret.out.dailyLimit = PLANS[ret.plan].daily_limit
        /\ ret.out.windowPercent = WindowPercent(ret.out.requestCount, PLANS[ret.plan])
        /\ ret.out.dailyPercent = DailyPercent(ret.out.requestCount, PLANS[ret.plan])

(* C18: a run with a plan that is not one of the configured plans returns   *)
(* exit code 1, reads no log file and prints no usage.                      *)

C18_UnknownPlanFatal ==
    (ret.op = "run" /\ ret.plan \notin DOMAIN PLANS) =>
        /\ ret.exit = 1
        /\ ret.reads = <<>>
        /\ "out" \notin DOMAIN ret

(* C19: the window percent displayed is between 0 and 100 for every request *)
(* count, and so is the one computed for each plan.                         *)

C19_WindowCap ==
    ret.op = "displayMonitorData" =>
        /\ ret.out.windowPercent \in 0..1000
        /\ \A name \in DOMAIN PLANS :
              WindowPercent(ret.usage.totals.requestCount, PLANS[name]) \in 0..1000

\* far more requests than five times the window limit: the display shows 100.0
C19_Witness ==
    /\ ret.op = "displayMonitorData"
    /\ ret.usage.totals.requestCount > 100 * 5 * ret.out.windowLimit
    /\ ret.out.windowPercent = 1000

(* C20: the status is normal below 75 percent, high from 75 to 90 percent   *)
(* inclusive, and critical above 90 percent.                                *)

C20_StatusClassification ==
    ret.op = "displayMonitorData" =>
        LET percent == ret.out.dailyPercent
        IN  /\ ret.out.status = "normal" <=> percent < 750
            /\ ret.out.status = "high" <=> (750 <= percent /\ percent <= 900)
            /\ ret.out.status = "critical" <=> percent > 900

----------------------------------------------------------------------------
(* C25: an entry under the file's current modification time whose age is    *)
(* exactly cacheTimeout is still served from the cache; a file is read and  *)
(* parsed again only when the age of its entry exceeds cacheTimeout.        *)

C25_TimeoutBoundary ==
    [][\A path \in Paths :
          ( /\ path \in DOMAIN ret'.reads
            /\ files[path].status = "ok"
            /\ firstParse[path].at # Null
            /\ now - firstParse[path].at <= cacheTimeout )
          => /\ ~ret'.reads[path].parsed
             /\ ret'.reads[path].entries = firstParse[path].data]_vars

----------------------------------------------------------------------------
(* C21: a time-to-window-limit prediction is produced only when the current *)
(* window message count is below the window limit and the burn rate is      *)
(* positive; when produced it equals (limit - currentWindowMessages) / rate *)
(* with rate = requestCount / 24, and is strictly positive; none is         *)
(* produced when requestCount >= 5 * limit_per_5h or requestCount = 0.      *)

C21_PredictorGuarded ==
    ret.op = "displayMonitorData" =>
        LET out == ret.out
            p == out.prediction
        IN  /\ p.produced =>
                 /\ out.windowMessages < out.windowLimit
                 /\ out.requestCount > 0
                 /\ p.den > 0
                 /\ p.num > 0
                 /\ p.num * out.requestCount
                       = 24 * (out.windowLimit - out.windowMessages) * p.den
            /\ (out.requestCount >= 5 * out.windowLimit \/ out.requestCount = 0)
                 => ~p.produced

\* a prediction is printed one message short of the window limit
C21_Witness ==
    /\ ret.op = "displayMonitorData"
    /\ ret.out.prediction.produced
    /\ ret.out.windowMessages = ret.out.windowLimit - 1

----------------------------------------------------------------------------
(* C29: a project whose processing raises an error inside getAllUsageData   *)
(* is absent from the projects mapping and has contributed nothing to the   *)
(* global totals, model set or timeRange: the global model set is the       *)
(* union of the model sets of the projects in the mapping, the totals are   *)
(* the sums over these projects, and a bound of the global timeRange is     *)
(* set only if a project in the mapping has it set.                         *)

RECURSIVE SumOverProjects(_, _, _)
SumOverProjects(projects, ids, field) ==
    IF ids = {} THEN 0
    ELSE LET q == CHOOSE x \in ids : TRUE
         IN  projects[q][field] + SumOverProjects(projects, ids \ {q}, field)

C29_FailedProjectLeavesNoTrace ==
    ret.op = "getAllUsageData" =>
        LET usage == ret.usage
            present == DOMAIN usage.projects
        IN  /\ SetOf(usage.models)
                 = UNION {SetOf(usage.projects[q].models) : q \in present}
            /\ \A f \in NumericFields \cup {"requestCount"} :
                  usage.totals[f] = SumOverProjects(usage.projects, present, f)
            /\ usage.timeRange.start # Null
                  => \E q \in present : usage.projects[q].timeRange.start # Null
            /\ usage.timeRange.end # Null
                  => \E q \in present : usage.projects[q].timeRange.end # Null

----------------------------------------------------------------------------
(* C22: a project-detail request for an id that has no project directory    *)
(* resolves with a result that carries an error field, does not throw, the  *)
(* command line returns exit code 1, and the cache is left as it was.       *)

C22_UnknownProject ==
    [][(ret'.op = "getProjectDetails" /\ ret'.project \notin SetOf(GetProjects))
          => /\ ~ret'.details.threw
             /\ Has(ret'.details.result, "error")
             /\ ret'.exit = 1
             /\ cache' = cache]_vars

\* an unknown id is asked for on a reader whose cache holds entries
C22_Witness ==
    /\ ret.op = "getProjectDetails"
    /\ ret.project = "p3"
    /\ ret.exit = 1
    /\ cache # <<>>

(* C28: for a project with at least one conversation, and no file changing  *)
(* after getAllUsageData, the totals of getProjectDetails(projectId) and    *)
(* its number of conversations equal the fields of                          *)
(* getAllUsageData().projects[projectId].                                   *)

C28_ProjectViewAgrees ==
    ( /\ ret.op = "getProjectDetails"
      /\ lastAll.valid
      /\ ~dirty
      /\ ret.project \in DOMAIN lastAll.usage.projects
      /\ lastAll.usage.projects[ret.project].conversationCount >= 1 )
    => /\ ~ret.details.threw
       /\ Has(ret.details.result, "usage")
       /\ LET usage == ret.details.result.usage
              global == lastAll.usage.projects[ret.project]
          IN  /\ \A f \in NumericFields \cup {"requestCount"} : usage[f] = global[f]
              /\ Len(usage.conversations) = global.conversationCount

----------------------------------------------------------------------------
(* C23: in continuous monitor mode at most one run of displayMonitorData is *)
(* in progress at every moment, and a timer tick never starts a refresh     *)
(* while the previous one, file reads included, has not finished.           *)

C23_RefreshesNotPipelined ==
    /\ [](proc.running <= 1)
    /\ [][proc'.refreshes # proc.refreshes
             => proc.running = 0 /\ proc'.running = 1]_vars

\* the timer has fired a second time and its refresh is in progress
C23_Witness ==
    /\ proc.refreshes = 2
    /\ proc.running = 1
    /\ proc.displays = 2

(* C24: in continuous monitor mode, once SIGINT is delivered after the      *)
(* refresh timer has been started, no further refresh begins, the timer is  *)
(* stopped and the process terminates with exit code 0.                     *)

C26_RunOnce ==
    (proc.argvOnce /\ proc.command = "monitor")
    => /\ ~proc.timer
       /\ proc.displays <= 1
       /\ proc.pc = "exited" => (proc.returned = 0 /\ proc.displays = 1)
       /\ proc.pc \notin {"idle", "refresh"}

(* C27: when the first positional word is not a registered command, run     *)
(* reports 'Unknown command', performs no usage aggregation and returns 1.  *)

C27_UnknownCommand ==
    (proc.pc # "none" /\ proc.word # "" /\ proc.word \notin Commands)
    => /\ proc.displays = 0
       /\ ~lastAll.valid
       /\ proc.pc = "exited" => (proc.reported = "Unknown command" /\ proc.returned = 1)

----------------------------------------------------------------------------
(* C30: for getSummary, getProjectDetails, listProjects and getUsageByPeriod *)
(* called with quiet = false, the interval timer the spinner started at the *)
(* beginning of the operation is cleared when the operation resolves or     *)
(* rejects, on the success path and on every error path: no spinner timer   *)
(* stays active afterwards.                                                 *)

SpinnerOperations == {"getSummary", "getProjectDetails", "listProjects",
                      "getUsageByPeriod"}

C30_SpinnerReleased ==
    ret.op \in SpinnerOperations => (~ret.spinner.timer /\ ~proc.spinner)

\* not quiet, on a terminal: the timer was started and the operation rejected,
\* for an unknown period or for a project whose details throw after the load
C30_Witness ==
    /\ ret.op \in {"getUsageByPeriod", "getProjectDetails"}
    /\ ret.threw
    /\ ret.spinner.started
    /\ ~proc.spinner

====
